---- MODULE Spec2Model ----
(***************************************************************************)
(* Model of PublicationAnalyzer (src/logic.py): the identifier             *)
(* consolidation, the metadata fetch loop, the date construction and the   *)
(* record-linkage / attribution pipeline of process_data.                  *)
(*                                                                         *)
(* Text is a sequence of one-character strings.  An absent cell (NaN,      *)
(* None, <NA>) of a text column is the one-element sequence NaN; an absent *)
(* cell of a key column (Username, NetID, Scopus, DOI, ...) is the         *)
(* string NA; an absent date is NaT.                                       *)
(***************************************************************************)
EXTENDS Integers, Sequences, FiniteSets, TLC

VARIABLES
    pc,                 \* position: which call is pending / how it ended
    err,                \* the exception that ended the call ("" when none)
    df1,                \* Publication Report (claims): rows of NetID, Scopus, PubMed, ...
    df2,                \* Author ID Report (roster): rows of Username, Position, ...
    start_date,         \* window, inclusive
    end_date,
    provider,           \* what the metadata provider holds for each Scopus id
    responses,          \* the status the provider answers, per id and attempt
    pmid_final,         \* column 'PMID Final' of df1 (empty before consolidation)
    scopus_ids,         \* unique_scopus_ids
    fi,                 \* index in scopus_ids of the id being fetched
    attempt,            \* attempt counter of the retry loop for that id
    results,            \* metadata records appended so far
    sent,               \* the ids requests.get was called for, in call order
    progress,           \* the fractions handed to progress_callback, as <<num, den>>
    df_merged1,         \* the table after the first merge
    df_merged,          \* the table after the second merge, with the flags
    df_filtered,        \* the eligible rows
    df_faculty_summary, \* first returned table
    df_assignments,     \* rows of DOI, "Assigned To"
    df_pub_summary,     \* second returned table
    date_in,            \* arguments of a combine_date_parts call
    date_out            \* its result

vars == <<pc, err, df1, df2, start_date, end_date, provider, responses,
          pmid_final, scopus_ids, fi, attempt, results, sent, progress,
          df_merged1, df_merged, df_filtered, df_faculty_summary, df_assignments,
          df_pub_summary, date_in, date_out>>

pipeVars == <<df2, start_date, end_date, provider, responses, scopus_ids, fi,
              attempt, results, sent, progress, df_merged1, df_merged, df_filtered,
              df_faculty_summary, df_assignments, df_pub_summary>>

-----------------------------------------------------------------------------
(* Absent values *)

NA == "NA"
NaN == <<"nan">>
NaT == 0

isna(x) == x = NaN

-----------------------------------------------------------------------------
(* Text helpers *)

Digits == {"0", "1", "2", "3", "4", "5", "6", "7", "8", "9"}

DigitChars == <<"0", "1", "2", "3", "4", "5", "6", "7", "8", "9">>

IsDigit(c) == c \in Digits

DigitVal(c) == (CHOOSE i \in 1..Len(DigitChars) : DigitChars[i] = c) - 1

AllDigits(s) == Len(s) > 0 /\ \A i \in 1..Len(s) : IsDigit(s[i])

RECURSIVE StrToInt(_)
StrToInt(s) ==
    IF Len(s) = 0 THEN 0
    ELSE 10 * StrToInt(SubSeq(s, 1, Len(s) - 1)) + DigitVal(s[Len(s)])

RECURSIVE IntToStr(_)
IntToStr(n) ==
    IF n < 10 THEN <<DigitChars[n + 1]>>
    ELSE Append(IntToStr(n \div 10), DigitChars[(n % 10) + 1])

\* str.zfill(width): left-pad with "0"
RECURSIVE zfill(_, _)
zfill(s, width) == IF Len(s) >= width THEN s ELSE zfill(<<"0">> \o s, width)

\* str.strip(): drop leading and trailing blanks
RECURSIVE strip(_)
strip(s) ==
    IF Len(s) = 0 THEN s
    ELSE IF s[1] = " " THEN strip(Tail(s))
    ELSE IF s[Len(s)] = " " THEN strip(SubSeq(s, 1, Len(s) - 1))
    ELSE s

\* str.split(sep) for a one-character separator
RECURSIVE split(_, _)
split(s, sep) ==
    IF \A i \in 1..Len(s) : s[i] # sep THEN <<s>>
    ELSE LET k == CHOOSE i \in 1..Len(s) :
                      s[i] = sep /\ \A j \in 1..(i - 1) : s[j] # sep
         IN  <<SubSeq(s, 1, k - 1)>> \o split(SubSeq(s, k + 1, Len(s)), sep)

\* sep.join(parts)
RECURSIVE join(_, _)
join(parts, sep) ==
    IF Len(parts) = 0 THEN <<>>
    ELSE IF Len(parts) = 1 THEN parts[1]
    ELSE parts[1] \o sep \o join(Tail(parts), sep)

\* the subsequence of s whose elements satisfy Keep
RECURSIVE SelectIdx(_, _, _)
SelectIdx(s, Keep(_), i) ==
    IF i > Len(s) THEN <<>>
    ELSE (IF Keep(i) THEN <<s[i]>> ELSE <<>>) \o SelectIdx(s, Keep, i + 1)

\* <<F(i), ..., F(n)>>
RECURSIVE MapIdx(_, _, _)
MapIdx(F(_), n, i) == IF i > n THEN <<>> ELSE <<F(i)>> \o MapIdx(F, n, i + 1)

RECURSIVE SeqSum(_)
SeqSum(s) == IF Len(s) = 0 THEN 0 ELSE s[1] + SeqSum(Tail(s))

RECURSIVE Flatten(_)
Flatten(ss) == IF Len(ss) = 0 THEN <<>> ELSE ss[1] \o Flatten(Tail(ss))

Range(s) == {s[i] : i \in 1..Len(s)}

-----------------------------------------------------------------------------
(* combine_date_parts *)

ValueErrorRaised == -1

IsLeap(y) == (y % 4 = 0 /\ y % 100 # 0) \/ y % 400 = 0

DaysInMonth(y, m) ==
    IF m = 2 THEN (IF IsLeap(y) THEN 29 ELSE 28)
    ELSE IF m \in {4, 6, 9, 11} THEN 30 ELSE 31

\* a calendar date as one integer that orders as the calendar does
MkDate(y, m, d) == y * 10000 + m * 100 + d

\* datetime.strptime(f"{month}/{day}/{year}", "%m/%d/%Y").date() : the date, or
\* the ValueError the call raises.  %m and %d take one or two digits, %Y four.
strptime(month, day, year) ==
    IF /\ AllDigits(month) /\ Len(month) <= 2
       /\ AllDigits(day) /\ Len(day) <= 2
       /\ AllDigits(year) /\ Len(year) = 4
       /\ StrToInt(month) \in 1..12
       /\ StrToInt(year) >= 1
       /\ StrToInt(day) \in 1..DaysInMonth(StrToInt(year), StrToInt(month))
    THEN MkDate(StrToInt(year), StrToInt(month), StrToInt(day))
    ELSE ValueErrorRaised

\* str(x) of a date part: an absent part prints as text with no digit in it
str(x) == IF isna(x) THEN <<"n", "a", "n">> ELSE x

DatePartOrDefault(p) ==
    IF Len(p) = 0 \/ isna(p) THEN <<"0", "1">> ELSE zfill(str(p), 2)

combine_date_parts_NoExcept(year, month, day) ==
    strptime(DatePartOrDefault(month), DatePartOrDefault(day), str(year))

combine_date_parts(year, month, day) ==
    LET r == strptime(DatePartOrDefault(month), DatePartOrDefault(day), str(year))
    IN  IF r = ValueErrorRaised THEN NaT ELSE r

-----------------------------------------------------------------------------
(* consolidate_pmids *)

Column(df, name) == MapIdx(LAMBDA i : df[i][name], Len(df), 1)

IsIntText(s) == AllDigits(s)

IsFloatText(s) ==
    \E k \in 2..(Len(s) - 1) :
        /\ s[k] = "."
        /\ AllDigits(SubSeq(s, 1, k - 1))
        /\ AllDigits(SubSeq(s, k + 1, Len(s)))

IsNumericText(s) == IsIntText(s) \/ IsFloatText(s)

\* pd.read_csv gives a column a numeric dtype when every cell that is present
\* parses as a number (a column with rows and no value at all is float64), and
\* dtype object, the numbers left as text, otherwise.
IsNumericColumn(col) ==
    /\ Len(col) > 0
    /\ \A i \in 1..Len(col) : isna(col[i]) \/ IsNumericText(col[i])

IntPart(s) ==
    IF IsIntText(s) THEN s
    ELSE SubSeq(s, 1, (CHOOSE k \in 1..Len(s) : s[k] = ".") - 1)

IsIntegral(s) ==
    \/ IsIntText(s)
    \/ /\ IsFloatText(s)
       /\ LET k == CHOOSE i \in 1..Len(s) : s[i] = "."
          IN  \A j \in (k + 1)..Len(s) : s[j] = "0"

\* Series.astype('Int64') raises on a float that is no integer and on text
\* that is no integer literal (an object column always holds such text).
AstypeInt64Raises(col) ==
    IF IsNumericColumn(col)
    THEN \E i \in 1..Len(col) : ~isna(col[i]) /\ ~IsIntegral(col[i])
    ELSE \E i \in 1..Len(col) : ~isna(col[i]) /\ ~IsIntText(col[i])

\* .astype('Int64').astype('string') of one cell
Int64String(cell) == IF isna(cell) THEN NaN ELSE IntToStr(StrToInt(IntPart(cell)))

\* the .str accessor exists on object columns only
StrAccessorRaises(col) == IsNumericColumn(col)

\* re.search(r'(\d+)') : the first maximal run of digits, absent when none
FirstDigitRun(s) ==
    IF isna(s) \/ \A i \in 1..Len(s) : ~IsDigit(s[i]) THEN NaN
    ELSE LET b == CHOOSE i \in 1..Len(s) :
                      IsDigit(s[i]) /\ \A j \in 1..(i - 1) : ~IsDigit(s[j])
             e == CHOOSE i \in b..Len(s) :
                      /\ \A j \in b..i : IsDigit(s[j])
                      /\ (i = Len(s) \/ ~IsDigit(s[i + 1]))
         IN  SubSeq(s, b, e)

\* a.combine_first(b) : a, its absent cells filled from b
combine_first_Swapped(a, b) == MapIdx(LAMBDA i : IF isna(b[i]) THEN a[i] ELSE b[i], Len(a), 1)

combine_first(a, b) == MapIdx(LAMBDA i : IF isna(a[i]) THEN b[i] ELSE a[i], Len(a), 1)

\* the exception consolidate_pmids ends with ("" when it returns)
consolidate_pmids_error(df) ==
    IF AstypeInt64Raises(Column(df, "PubMed")) THEN "astype(Int64): cannot convert"
    ELSE IF StrAccessorRaises(Column(df, "MaxPR_PubMed"))
         THEN "AttributeError: .str on MaxPR_PubMed"
    ELSE IF StrAccessorRaises(Column(df, "EuropePMC"))
         THEN "AttributeError: .str on EuropePMC"
    ELSE ""

\* column 'PMID Final' when it returns
consolidate_pmids(df) ==
    LET PubMed_clean == MapIdx(LAMBDA i : Int64String(df[i].PubMed), Len(df), 1)
        MaxPR_PubMed_clean == MapIdx(LAMBDA i : FirstDigitRun(df[i].MaxPR_PubMed), Len(df), 1)
        EuropePMC_clean == MapIdx(LAMBDA i : FirstDigitRun(df[i].EuropePMC), Len(df), 1)
    IN  combine_first(combine_first(PubMed_clean, MaxPR_PubMed_clean), EuropePMC_clean)

-----------------------------------------------------------------------------
(* query_scopus_api *)

max_retries == 3

batch_size == 25

\* number of slices chunk_list yields
ChunkCount(ids) == (Len(ids) + batch_size - 1) \div batch_size

total_batches(ids) == Len(ids) \div batch_size + 1

\* the retry loop goes round again: a rate-limited answer, and range(max_retries)
\* not exhausted
RetryAgain_AnyFailure(status, att) == status # "200" /\ att + 1 < max_retries

RetryAgain(status, att) == status = "429" /\ att + 1 < max_retries

\* progress_callback is called when a slice starts, before its first request
ReportsProgress(i, att) == att = 0 /\ (i - 1) % batch_size = 0

ProgressValue(ids, i) == <<(i - 1) \div batch_size + 1, total_batches(ids)>>

RECURSIVE unique(_)
unique(s) ==
    IF Len(s) = 0 THEN <<>>
    ELSE LET r == unique(SubSeq(s, 1, Len(s) - 1))
         IN  IF s[Len(s)] \in Range(r) THEN r ELSE Append(r, s[Len(s)])

\* df1['Scopus'].dropna().astype(str).unique().tolist()
unique_scopus_ids(df) ==
    unique(SelectIdx(Column(df, "Scopus"), LAMBDA i : df[i].Scopus # NA, 1))

\* the record built from a 200 response (the fields the pipeline reads)
ApiResult(sid, meta) ==
    [ScopusID  |-> sid,
     Title     |-> meta.Title,
     AuthorIDs |-> join(meta.auids, <<";", " ">>),
     Year      |-> meta.Year,
     Month     |-> meta.Month,
     Day       |-> meta.Day,
     SubType   |-> meta.SubType,
     DOI       |-> meta.DOI]

-----------------------------------------------------------------------------
(* process_data: dates and merges *)

\* df_scopus with its 'Publication Date' column
WithPublicationDate(res) ==
    MapIdx(LAMBDA j : res[j] @@ [PublicationDate |->
                         combine_date_parts(res[j].Year, res[j].Month, res[j].Day)],
           Len(res), 1)

NoClaim == [NetID |-> NA, Scopus |-> NA, PMID_Final |-> NaN, ci |-> 0]

NoMetadata ==
    [ScopusID |-> NA, Title |-> NA, AuthorIDs |-> NaN, Year |-> NaN, Month |-> NaN,
     Day |-> NaN, SubType |-> NaN, DOI |-> NA, PublicationDate |-> NaT]

RosterPart(roster, ri) ==
    [Username      |-> roster[ri].Username,
     Name          |-> roster[ri].Name,
     Position_x    |-> roster[ri].Position,
     ClaimedScopus |-> roster[ri].ClaimedScopus,
     Arrive        |-> roster[ri].Arrive,
     Leave         |-> roster[ri].Leave,
     ri            |-> ri]

ClaimPart(claims, pmids, ci) ==
    [NetID      |-> claims[ci].NetID,
     Scopus     |-> claims[ci].Scopus,
     PMID_Final |-> pmids[ci],
     ci         |-> ci]

Indices(n) == MapIdx(LAMBDA i : i, n, 1)

\* an inner join: a roster row without claim rows is lost
merge_first_Inner(roster, claims, pmids) ==
    Flatten(MapIdx(LAMBDA ri :
        LET m == SelectIdx(Indices(Len(claims)),
                           LAMBDA ci : claims[ci].NetID = roster[ri].Username, 1)
        IN  MapIdx(LAMBDA k : RosterPart(roster, ri) @@ ClaimPart(claims, pmids, m[k]),
                   Len(m), 1),
        Len(roster), 1))

\* df2.merge(df1, left_on='Username', right_on='NetID', how='left') : the roster
\* is the left table; each roster row, in order, with each claim row of its
\* NetID, in order, or once with absent claim fields.  ri and ci record the
\* rows a merged row comes from.
merge_first(roster, claims, pmids) ==
    Flatten(MapIdx(LAMBDA ri :
        LET m == SelectIdx(Indices(Len(claims)),
                           LAMBDA ci : claims[ci].NetID = roster[ri].Username, 1)
        IN  IF Len(m) = 0 THEN <<RosterPart(roster, ri) @@ NoClaim>>
            ELSE MapIdx(LAMBDA k : RosterPart(roster, ri) @@ ClaimPart(claims, pmids, m[k]),
                        Len(m), 1),
        Len(roster), 1))

\* df_merged.merge(df_scopus, left_on='Scopus', right_on='Scopus ID', how='left')
merge_second(m1, scopus) ==
    Flatten(MapIdx(LAMBDA k :
        LET m == SelectIdx(scopus, LAMBDA j : scopus[j].ScopusID = m1[k].Scopus, 1)
        IN  IF Len(m) = 0 THEN <<m1[k] @@ NoMetadata>>
            ELSE MapIdx(LAMBDA j : m1[k] @@ m[j], Len(m), 1),
        Len(m1), 1))

-----------------------------------------------------------------------------
(* process_data: author positions, peer review, eligibility *)

\* [x.strip() for x in str(text).split(';') if x.strip()]
Tokens(text) ==
    LET parts == split(text, ";")
        stripped == MapIdx(LAMBDA i : strip(parts[i]), Len(parts), 1)
    IN  SelectIdx(stripped, LAMBDA i : Len(stripped[i]) > 0, 1)

NoFlags == <<FALSE, FALSE, FALSE>>

\* the last author taken for every publication, a single-author one included
flag_author_position_LastOfOne(claimed_ids, paper_author_ids) ==
    IF isna(claimed_ids) \/ isna(paper_author_ids) THEN NoFlags
    ELSE LET claimed_set == Range(Tokens(claimed_ids))
             paper_list == Tokens(paper_author_ids)
             n == Len(paper_list)
         IN  IF n = 0 \/ claimed_set = {} THEN NoFlags
             ELSE <<paper_list[1] \in claimed_set,
                    paper_list[n] \in claimed_set,
                    \E i \in 2..(n - 1) : paper_list[i] \in claimed_set>>

\* <<first, last, middle>>
flag_author_position(claimed_ids, paper_author_ids) ==
    IF isna(claimed_ids) \/ isna(paper_author_ids) THEN NoFlags
    ELSE LET claimed_set == Range(Tokens(claimed_ids))
             paper_list == Tokens(paper_author_ids)
             n == Len(paper_list)
         IN  IF n = 0 \/ claimed_set = {} THEN NoFlags
             ELSE IF n = 1 THEN <<paper_list[1] \in claimed_set, FALSE, FALSE>>
             ELSE <<paper_list[1] \in claimed_set,
                    paper_list[n] \in claimed_set,
                    IF n > 2 THEN \E i \in 2..(n - 1) : paper_list[i] \in claimed_set
                    ELSE FALSE>>

valid_pub_mask(r) == r.DOI # NA \/ ~isna(r.PMID_Final) \/ r.Title # NA

\* the three flag columns: False, then set on the rows of valid_pub_mask
WithAuthorFlags(r) ==
    LET f == IF valid_pub_mask(r)
             THEN flag_author_position(r.ClaimedScopus, r.AuthorIDs)
             ELSE NoFlags
    IN  r @@ [Is_First_Author |-> f[1], Is_Last_Author |-> f[2],
              Is_Middle_Author |-> f[3]]

T_Article == <<"A", "r", "t", "i", "c", "l", "e">>
T_BookChapter == <<"B", "o", "o", "k", " ", "C", "h", "a", "p", "t", "e", "r">>
T_Review == <<"R", "e", "v", "i", "e", "w">>
T_ShortSurvey == <<"S", "h", "o", "r", "t", " ", "S", "u", "r", "v", "e", "y">>

peer_reviewed_types == {T_Article, T_BookChapter, T_Review, T_ShortSurvey}

flag_peer_reviewed(doc_subtype) ==
    IF isna(doc_subtype) THEN FALSE ELSE strip(doc_subtype) \in peer_reviewed_types

\* a comparison with NaT is False
date_mask_Exclusive(d, start, end) == d # NaT /\ d > start /\ d < end

date_mask(d, start, end) == d # NaT /\ d >= start /\ d <= end

WithPeerReviewed(r) == r @@ [IsPeerReviewed |-> flag_peer_reviewed(r.SubType)]

\* df_merged[peer_reviewed_mask & date_mask]
filter_eligible(merged, start, end) ==
    SelectIdx(merged,
              LAMBDA k : merged[k].IsPeerReviewed
                         /\ date_mask(merged[k].PublicationDate, start, end), 1)

-----------------------------------------------------------------------------
(* process_data: faculty summary *)

LowerChar(c) == CASE c = "N" -> "n" [] c = "A" -> "a" [] OTHER -> c

lower(s) == MapIdx(LAMBDA i : LowerChar(s[i]), Len(s), 1)

\* every identifier cell counted as present
HasPmid_Always(p) == TRUE

\* pmids.notna() & (str.strip().str.lower() != 'nan') & (str.strip() != '')
HasPmid(p) ==
    /\ ~isna(p)
    /\ lower(strip(p)) # <<"n", "a", "n">>
    /\ strip(p) # <<>>

\* <<PMIDs, PMID_Count, NonPMID_Count>> of a subset of the filtered rows
PmidSummary(subset) ==
    LET with == SelectIdx(subset, LAMBDA k : HasPmid(subset[k].PMID_Final), 1)
    IN  [PMIDs         |-> join(Column(with, "PMID_Final"), <<",", " ">>),
         PMID_Count    |-> Len(with),
         NonPMID_Count |-> Len(subset) - Len(with)]

summarize_pmids(df, netid, flag_col) ==
    PmidSummary(SelectIdx(df, LAMBDA k : df[k].Username = netid /\ df[k][flag_col], 1))

summarize_any_authorship(df, netid) ==
    PmidSummary(SelectIdx(df, LAMBDA k : df[k].Username = netid, 1))

\* scopus_to_netids[sid]
scopus_to_netids(df, sid) == {df[k].Username : k \in {i \in 1..Len(df) : df[i].ScopusID = sid}}

\* netid_to_scopus_ids.get(netid, set())
netid_to_scopus_ids(df, netid) ==
    {df[k].ScopusID : k \in {i \in 1..Len(df) : df[i].Username = netid /\ df[i].ScopusID # NA}}

\* the member's own claim counted as somebody else's
Coauthored_SelfCounts(df, netid) ==
    IF \E sid \in netid_to_scopus_ids(df, netid) : scopus_to_netids(df, sid) # {}
    THEN "Yes" ELSE "No"

Coauthored(df, netid) ==
    IF \E sid \in netid_to_scopus_ids(df, netid) : scopus_to_netids(df, sid) \ {netid} # {}
    THEN "Yes" ELSE "No"

FacultyInfoOf(r) ==
    [Name |-> r.Name, Username |-> r.Username, Position_x |-> r.Position_x,
     Arrive |-> r.Arrive, Leave |-> r.Leave]

\* every merged row kept: no drop_duplicates
faculty_info_AllRows(merged) == MapIdx(LAMBDA k : FacultyInfoOf(merged[k]), Len(merged), 1)

\* df_merged[[name, Username, Position_x, Arrive Date, Leave Date]].drop_duplicates()
faculty_info(merged) == unique(MapIdx(LAMBDA k : FacultyInfoOf(merged[k]), Len(merged), 1))

faculty_summary(merged, filtered) ==
    LET info == faculty_info(merged)
    IN  MapIdx(LAMBDA k :
            info[k] @@
            [First    |-> summarize_pmids(filtered, info[k].Username, "Is_First_Author"),
             Last     |-> summarize_pmids(filtered, info[k].Username, "Is_Last_Author"),
             Middle   |-> summarize_pmids(filtered, info[k].Username, "Is_Middle_Author"),
             Any      |-> summarize_any_authorship(filtered, info[k].Username),
             Coauthor |-> Coauthored(filtered, info[k].Username)],
            Len(info), 1)

-----------------------------------------------------------------------------
(* process_data: publication assignment *)

rank_order ==
    <<"Professor", "Research Professor", "Professor, Clinical",
      "Associate Professor", "Research Associate Professor",
      "Associate Professor, Clinical",
      "Assistant Professor", "Research Assistant Professor",
      "Assistant Professor, Clinical",
      "Instructor", "Instructor, Clinical", "Lecturer",
      "Adjunct Professor", "Adjunct Associate Professor",
      "Adjunct Assistant Professor",
      "Adjunct Instructor", "Adjunct Lecturer", "Professor Emeritus">>

\* position_rank[title] = enumerate index
position_rank(title) == (CHOOSE i \in 1..Len(rank_order) : rank_order[i] = title) - 1

\* rows without a DOI kept
df_assign_rows_KeepNoDOI(filtered) ==
    SelectIdx(filtered, LAMBDA k : filtered[k].Position_x \in Range(rank_order), 1)

\* df_filtered.dropna(subset=["DOI"]) restricted to the ranked positions
df_assign_rows(filtered) ==
    SelectIdx(filtered,
              LAMBDA k : filtered[k].DOI # NA /\ filtered[k].Position_x \in Range(rank_order),
              1)

\* the most junior claimant chosen
assign_publication_MaxRank(group) ==
    LET max_rank == CHOOSE r \in {position_rank(group[k].Position_x) : k \in 1..Len(group)} :
                        \A k \in 1..Len(group) : position_rank(group[k].Position_x) <= r
        top_candidates == SelectIdx(group,
                              LAMBDA k : position_rank(group[k].Position_x) = max_rank, 1)
    IN  top_candidates[1].Username

\* the last of the tied claimants chosen
assign_publication_LastTied(group) ==
    LET min_rank == CHOOSE r \in {position_rank(group[k].Position_x) : k \in 1..Len(group)} :
                        \A k \in 1..Len(group) : r <= position_rank(group[k].Position_x)
        top_candidates == SelectIdx(group,
                              LAMBDA k : position_rank(group[k].Position_x) = min_rank, 1)
    IN  top_candidates[Len(top_candidates)].Username

\* "Assigned To" of one DOI group (its rows in table order)
assign_publication(group) ==
    LET min_rank == CHOOSE r \in {position_rank(group[k].Position_x) : k \in 1..Len(group)} :
                        \A k \in 1..Len(group) : r <= position_rank(group[k].Position_x)
        top_candidates == SelectIdx(group,
                              LAMBDA k : position_rank(group[k].Position_x) = min_rank, 1)
    IN  top_candidates[1].Username

\* df_assign.groupby("DOI").apply(assign_publication).reset_index() : one row
\* per DOI.  The rows are listed by first occurrence of the DOI; groupby lists
\* them by sorted key, an order no returned table shows.
assignments(filtered) ==
    LET a == df_assign_rows(filtered)
        dois == unique(Column(a, "DOI"))
    IN  MapIdx(LAMBDA g :
            [DOI |-> dois[g],
             AssignedTo |-> assign_publication(SelectIdx(a, LAMBDA k : a[k].DOI = dois[g], 1))],
            Len(dois), 1)

FacultyDetailsOf(r) ==
    [Username |-> r.Username, Name |-> r.Name, Position_x |-> r.Position_x]

\* faculty_details.merge(df_pub_counts, how="left"), absent counts filled with 0
pub_summary(merged, assigned) ==
    LET details == unique(MapIdx(LAMBDA k : FacultyDetailsOf(merged[k]), Len(merged), 1))
    IN  MapIdx(LAMBDA k :
            details[k] @@
            [TotalPublications |->
                Cardinality({g \in 1..Len(assigned) :
                                assigned[g].AssignedTo = details[k].Username})],
            Len(details), 1)

-----------------------------------------------------------------------------
(* Inputs *)

MaxRoster == 2
MaxClaims == 2
MaxAuthors == 3
MaxRows == 2
MaxIds == 51

SeqsOf(S, lo, hi) == UNION {[1..k -> S] : k \in lo..hi}

ScopusIDs == {"s1", "s2"}

Statuses == {"200", "429", "404", "exception"}

Always(status) == [a \in 1..max_retries |-> status]

RosterRow(u, position, claimed) ==
    [Username |-> u, Name |-> u, Position |-> position, ClaimedScopus |-> claimed,
     Arrive |-> NA, Leave |-> NA]

ClaimRow(netid, sid, pubmed) ==
    [NetID |-> netid, Scopus |-> sid, PubMed |-> pubmed,
     MaxPR_PubMed |-> <<"n", "/", "a">>, EuropePMC |-> <<"x">>]

Meta(title, doi, auids, subtype, y, m, d) ==
    [Title |-> title, DOI |-> doi, auids |-> auids, SubType |-> subtype,
     Year |-> y, Month |-> m, Day |-> d]

Y2024 == <<"2", "0", "2", "4">>
Y2025 == <<"2", "0", "2", "5">>

\* an Article of August 1st, 2024 by the authors A and B
MetaInWindow(doi) ==
    Meta("T", doi, <<<<"A">>, <<"B">>>>, T_Article, Y2024, <<"0", "8">>, <<"0", "1">>)

\* the default window of the date pickers
AYStart == MkDate(2024, 7, 1)
AYEnd == MkDate(2025, 6, 30)

\* the variables a call of a single method leaves alone
Unused ==
    /\ df2 = <<>> /\ start_date = NaT /\ end_date = NaT
    /\ provider = <<>> /\ responses = <<>>
    /\ scopus_ids = <<>> /\ fi = 0 /\ attempt = 0 /\ results = <<>>
    /\ sent = <<>> /\ progress = <<>>
    /\ df_merged1 = <<>> /\ df_merged = <<>> /\ df_filtered = <<>>
    /\ df_faculty_summary = <<>> /\ df_assignments = <<>> /\ df_pub_summary = <<>>

NotStarted ==
    /\ err = "" /\ pmid_final = <<>>
    /\ scopus_ids = <<>> /\ fi = 0 /\ attempt = 0 /\ results = <<>>
    /\ sent = <<>> /\ progress = <<>>
    /\ df_merged1 = <<>> /\ df_merged = <<>> /\ df_filtered = <<>>
    /\ df_faculty_summary = <<>> /\ df_assignments = <<>> /\ df_pub_summary = <<>>
    /\ date_in = <<>> /\ date_out = NaT

(* combine_date_parts alone *)
YearTexts == {NaN, Y2024, <<"2", "0", "2", "3">>, <<"2", "4">>, <<"2", "0", "x", "4">>}
MonthTexts == {NaN, <<>>, <<"2">>, <<"0", "8">>, <<"1", "2">>, <<"1", "3">>, <<"0">>,
               <<"A", "u", "g">>}
DayTexts == {NaN, <<>>, <<"1">>, <<"1", "5">>, <<"2", "9">>, <<"3", "1">>, <<"3", "2">>,
             <<"x">>}

InitDate ==
    /\ pc = "date_call"
    /\ date_in \in {[year |-> y, month |-> m, day |-> d] :
                        y \in YearTexts, m \in MonthTexts, d \in DayTexts}
    /\ date_out = NaT
    /\ err = "" /\ df1 = <<>> /\ pmid_final = <<>>
    /\ Unused

(* consolidate_pmids alone *)
PubMedCells == {NaN, <<"1", "2">>, <<"0", "7", ".", "0">>, <<"1", ".", "5">>,
                <<"i", "d", "3">>}
MaxPRCells == {NaN, <<"4", "5">>, <<"P", "M", ":", " ", "3", "4", " ", "x", "9">>,
               <<"n", "/", "a">>}
EuropePMCCells == {NaN, <<"M", "E", "D", "5", "6">>}

PmidRows ==
    {[NetID |-> "u1", Scopus |-> "s1", PubMed |-> a, MaxPR_PubMed |-> b, EuropePMC |-> c] :
        a \in PubMedCells, b \in MaxPRCells, c \in EuropePMCCells}

InitPmid ==
    /\ pc = "pmid_call"
    /\ df1 \in SeqsOf(PmidRows, 1, MaxRows)
    /\ err = "" /\ pmid_final = <<>>
    /\ date_in = <<>> /\ date_out = NaT
    /\ Unused

(* process_data: joins and attribution *)
RosterRowsJ ==
    {RosterRow("u1", "Professor", <<"A">>),
     RosterRow("u1", "Assistant Professor", <<"A">>),
     RosterRow("u2", "Professor", <<"B">>),
     RosterRow("u2", "Staff", <<"B">>)}

ClaimRowsJ ==
    {ClaimRow("u1", "s1", <<"7">>),
     ClaimRow("u2", "s1", NaN),
     ClaimRow("u2", "s2", <<"7">>),
     ClaimRow("u3", NA, NaN)}

ScenariosJ ==
    {[provider  |-> [s \in ScopusIDs |-> MetaInWindow(IF s = "s1" THEN "d1" ELSE d)],
      responses |-> [s \in ScopusIDs |-> Always("200")]] : d \in {"d1", NA}}
    \cup
    {[provider  |-> [s \in ScopusIDs |-> MetaInWindow(IF s = "s1" THEN "d1" ELSE "d2")],
      responses |-> [s \in ScopusIDs |-> Always(IF s = "s1" THEN "404" ELSE "200")]]}

ClaimTablesJ ==
    {<<ClaimRow("u1", "s1", <<"7">>)>>,
     <<ClaimRow("u1", "s1", <<"7">>), ClaimRow("u2", "s1", NaN)>>,
     <<ClaimRow("u2", "s1", NaN), ClaimRow("u1", "s1", <<"7">>)>>,
     <<ClaimRow("u1", "s1", <<"7">>), ClaimRow("u2", "s2", <<"7">>)>>,
     <<ClaimRow("u3", NA, NaN), ClaimRow("u2", "s2", <<"7">>)>>,
     <<ClaimRow("u2", "s2", <<"7">>), ClaimRow("u1", "s1", <<"7">>),
       ClaimRow("u2", "s1", NaN)>>}

RostersJ ==
    {<<RosterRow("u1", "Professor", <<"A">>), RosterRow("u2", "Professor", <<"B">>)>>,
     <<RosterRow("u2", "Professor", <<"B">>), RosterRow("u1", "Professor", <<"A">>)>>,
     <<RosterRow("u1", "Assistant Professor", <<"A">>),
       RosterRow("u2", "Professor", <<"B">>)>>,
     <<RosterRow("u1", "Professor", <<"A">>), RosterRow("u2", "Staff", <<"B">>)>>,
     <<RosterRow("u1", "Professor", <<"A">>),
       RosterRow("u1", "Assistant Professor", <<"A">>)>>,
     <<RosterRow("u1", "Professor", <<"A">>)>>}

\* rosters of every length, over a list of claim tables
InitRoster ==
    /\ pc = "start"
    /\ df2 \in SeqsOf(RosterRowsJ, 1, MaxRoster)
    /\ df1 \in ClaimTablesJ
    /\ \E sc \in ScenariosJ : provider = sc.provider /\ responses = sc.responses
    /\ start_date = AYStart /\ end_date = AYEnd
    /\ NotStarted

\* claim tables of every length, over a list of rosters
InitClaims ==
    /\ pc = "start"
    /\ df2 \in RostersJ
    /\ df1 \in SeqsOf(ClaimRowsJ, 0, MaxClaims)
    /\ \E sc \in ScenariosJ : provider = sc.provider /\ responses = sc.responses
    /\ start_date = AYStart /\ end_date = AYEnd
    /\ NotStarted

(* process_data: author positions *)
AuthorIDs == {<<"A">>, <<"B">>, <<"C">>}

ClaimedTexts ==
    {NaN, <<>>, <<";">>, <<"A">>, <<"A", ";", "B">>, <<" ", "A", " ", ";", " ", "C", " ">>,
     <<"A", "B">>}

InitClassify ==
    /\ pc = "start"
    /\ \E c \in ClaimedTexts : df2 = <<RosterRow("u1", "Professor", c)>>
    /\ \E pm \in {NaN, <<"7">>} : df1 = <<ClaimRow("u1", "s1", pm)>>
    /\ \E t \in {"T", NA}, d \in {"d1", NA}, au \in SeqsOf(AuthorIDs, 0, MaxAuthors) :
          provider = [s \in ScopusIDs |->
                         Meta(t, d, au, T_Article, Y2024, <<"0", "8">>, <<"0", "1">>)]
    /\ responses = [s \in ScopusIDs |-> Always("200")]
    /\ start_date = AYStart /\ end_date = AYEnd
    /\ NotStarted

(* process_data: eligibility *)
SubTypeTexts ==
    {NaN, T_Article, <<" ">> \o T_Article \o <<" ">>, T_BookChapter, T_Review,
     T_ShortSurvey, <<"a", "r", "t", "i", "c", "l", "e">>,
     <<"L", "e", "t", "t", "e", "r">>, <<"B", "o", "o", "k">>}

InitFilter ==
    /\ pc = "start"
    /\ df2 = <<RosterRow("u1", "Professor", <<"A">>)>>
    /\ df1 = <<ClaimRow("u1", "s1", NaN)>>
    /\ \E st \in SubTypeTexts, y \in {NaN, Y2024, Y2025},
          m \in {NaN, <<"6">>, <<"0", "7">>}, d \in {NaN, <<"1">>, <<"2">>, <<"3", "0">>, <<"3", "1">>} :
          provider = [s \in ScopusIDs |-> Meta("T", "d1", <<<<"A">>>>, st, y, m, d)]
    /\ responses = [s \in ScopusIDs |-> Always("200")]
    /\ \E w \in {<<AYStart, AYEnd>>, <<MkDate(2024, 7, 2), MkDate(2025, 6, 30)>>,
                 <<MkDate(2024, 1, 1), MkDate(2025, 6, 29)>>} :
          start_date = w[1] /\ end_date = w[2]
    /\ NotStarted

(* process_data: what the provider answers *)
InitFetch ==
    /\ pc = "start"
    /\ df2 = <<RosterRow("u1", "Professor", <<"A">>), RosterRow("u2", "Professor", <<"B">>)>>
    /\ df1 \in {<<ClaimRow("u1", "s1", NaN)>>,
                <<ClaimRow("u1", "s1", NaN), ClaimRow("u2", "s2", <<"7">>)>>,
                <<ClaimRow("u1", "s2", NaN), ClaimRow("u2", "s1", <<"7">>)>>}
    /\ provider = [s \in ScopusIDs |-> MetaInWindow(IF s = "s1" THEN "d1" ELSE "d2")]
    /\ \E r1 \in [1..max_retries -> Statuses],
          r2 \in {Always("200"), Always("429"), Always("exception"),
                  <<"429", "200", "200">>} :
          responses = [s \in ScopusIDs |-> IF s = "s1" THEN r1 ELSE r2]
    /\ start_date = AYStart /\ end_date = AYEnd
    /\ NotStarted

(* query_scopus_api alone *)
\* the identifiers 1..n, as unique_scopus_ids lists them
IdList(n) == Indices(n)

\* every answer to the first identifier, four scripts for the second
ScriptsOfFew(s) ==
    IF s = 1 THEN [1..max_retries -> Statuses]
    ELSE {Always("200"), Always("429"), Always("exception"), <<"429", "200", "200">>}

\* one script for every identifier of a long list
ScriptsOfMany ==
    {[s \in 1..MaxIds |-> Always("200")],
     [s \in 1..MaxIds |-> Always("429")],
     [s \in 1..MaxIds |-> IF s % 2 = 0 THEN Always("404") ELSE <<"429", "200", "200">>]}

InitQuery ==
    /\ pc = "fetch"
    /\ \/ \E n \in 1..2 :
             /\ scopus_ids = IdList(n)
             /\ \E r1 \in ScriptsOfFew(1), r2 \in ScriptsOfFew(2) :
                   responses = [s \in 1..n |-> IF s = 1 THEN r1 ELSE r2]
       \/ \E n \in 1..MaxIds :
             /\ scopus_ids = IdList(n)
             /\ \E sc \in ScriptsOfMany : responses = [s \in 1..n |-> sc[s]]
    /\ provider = [s \in 1..Len(scopus_ids) |-> MetaInWindow("d1")]
    /\ fi = 1 /\ attempt = 0 /\ results = <<>> /\ sent = <<>> /\ progress = <<>>
    /\ err = "" /\ df1 = <<>> /\ df2 = <<>> /\ pmid_final = <<>>
    /\ start_date = NaT /\ end_date = NaT
    /\ df_merged1 = <<>> /\ df_merged = <<>> /\ df_filtered = <<>>
    /\ df_faculty_summary = <<>> /\ df_assignments = <<>> /\ df_pub_summary = <<>>
    /\ date_in = <<>> /\ date_out = NaT

Init == InitRoster \/ InitClaims \/ InitClassify \/ InitFilter \/ InitFetch

-----------------------------------------------------------------------------
(* Actions *)

\* process_data up to the call of query_scopus_api
ProcessStart ==
    /\ pc = "start"
    /\ IF consolidate_pmids_error(df1) # ""
       THEN /\ pc' = "raised"
            /\ err' = consolidate_pmids_error(df1)
            /\ UNCHANGED <<pmid_final, scopus_ids, fi, attempt>>
       ELSE /\ pmid_final' = consolidate_pmids(df1)
            /\ IF Len(unique_scopus_ids(df1)) = 0
               THEN /\ pc' = "raised"
                    /\ err' = "ValueError: No Scopus IDs found in the data!"
                    /\ UNCHANGED <<scopus_ids, fi, attempt>>
               ELSE /\ pc' = "fetch"
                    /\ err' = ""
                    /\ scopus_ids' = unique_scopus_ids(df1)
                    /\ fi' = 1
                    /\ attempt' = 0
    /\ UNCHANGED <<df1, df2, start_date, end_date, provider, responses, results,
                   sent, progress, df_merged1, df_merged, df_filtered,
                   df_faculty_summary, df_assignments, df_pub_summary, date_in,
                   date_out>>

\* one requests.get of query_scopus_api and what the retry loop does with it
FetchAttempt ==
    /\ pc = "fetch"
    /\ fi <= Len(scopus_ids)
    /\ sent' = Append(sent, scopus_ids[fi])
    /\ progress' = IF ReportsProgress(fi, attempt)
                   THEN Append(progress, ProgressValue(scopus_ids, fi))
                   ELSE progress
    /\ LET sid == scopus_ids[fi]
           status == responses[sid][attempt + 1]
       IN  IF status = "200"
           THEN /\ results' = Append(results, ApiResult(sid, provider[sid]))
                /\ fi' = fi + 1
                /\ attempt' = 0
           ELSE IF RetryAgain(status, attempt)
           THEN /\ attempt' = attempt + 1
                /\ UNCHANGED <<results, fi>>
           ELSE /\ fi' = fi + 1
                /\ attempt' = 0
                /\ UNCHANGED results
    /\ UNCHANGED <<pc, err, df1, df2, start_date, end_date, provider, responses,
                   pmid_final, scopus_ids, df_merged1, df_merged, df_filtered,
                   df_faculty_summary, df_assignments, df_pub_summary, date_in,
                   date_out>>

\* process_data from the return of query_scopus_api to its own return
ProcessFinish ==
    /\ pc = "fetch"
    /\ fi > Len(scopus_ids)
    /\ IF Len(results) = 0
       THEN \* a frame without columns: the 'Publication Date' assignment and the
            \* merge on 'Scopus ID' cannot be made
            /\ pc' = "raised"
            /\ err' = "KeyError: 'Scopus ID'"
            /\ UNCHANGED <<df_merged1, df_merged, df_filtered, df_faculty_summary,
                           df_assignments, df_pub_summary>>
       ELSE LET df_scopus == WithPublicationDate(results)
                m1 == merge_first(df2, df1, pmid_final)
                m2 == merge_second(m1, df_scopus)
                merged == MapIdx(LAMBDA k : WithPeerReviewed(WithAuthorFlags(m2[k])),
                                 Len(m2), 1)
                filtered == filter_eligible(merged, start_date, end_date)
                assigned == assignments(filtered)
            IN  /\ df_merged1' = m1
                /\ df_merged' = merged
                /\ df_filtered' = filtered
                /\ df_faculty_summary' = faculty_summary(merged, filtered)
                /\ df_assignments' = assigned
                /\ df_pub_summary' = pub_summary(merged, assigned)
                /\ pc' = "done"
                /\ err' = ""
    /\ UNCHANGED <<df1, df2, start_date, end_date, provider, responses, pmid_final,
                   scopus_ids, fi, attempt, results, sent, progress, date_in,
                   date_out>>

\* a call of combine_date_parts
CombineDateCall ==
    /\ pc = "date_call"
    /\ date_out' = combine_date_parts(date_in.year, date_in.month, date_in.day)
    /\ pc' = IF date_out' = ValueErrorRaised THEN "raised" ELSE "date_ret"
    /\ UNCHANGED <<err, df1, pmid_final, date_in>>
    /\ UNCHANGED pipeVars

\* a call of consolidate_pmids
ConsolidateCall ==
    /\ pc = "pmid_call"
    /\ IF consolidate_pmids_error(df1) # ""
       THEN /\ pc' = "raised"
            /\ err' = consolidate_pmids_error(df1)
            /\ UNCHANGED pmid_final
       ELSE /\ pc' = "pmid_ret"
            /\ pmid_final' = consolidate_pmids(df1)
            /\ UNCHANGED err
    /\ UNCHANGED <<df1, date_in, date_out>>
    /\ UNCHANGED pipeVars

\* query_scopus_api returns the records it collected
QueryReturn ==
    /\ pc = "fetch"
    /\ fi > Len(scopus_ids)
    /\ pc' = "fetch_ret"
    /\ UNCHANGED <<err, df1, pmid_final, date_in, date_out>>
    /\ UNCHANGED pipeVars

Next == ProcessStart \/ FetchAttempt \/ ProcessFinish

Spec == Init /\ [][Next]_vars

NextDate == CombineDateCall

SpecDate == InitDate /\ [][NextDate]_vars

NextPmid == ConsolidateCall

SpecPmid == InitPmid /\ [][NextPmid]_vars

NextQuery == FetchAttempt \/ QueryReturn

\* the loops of query_scopus_api run on: no step of it waits for anything
SpecQuery == InitQuery /\ [][NextQuery]_vars /\ WF_vars(NextQuery)

-----------------------------------------------------------------------------
(* Properties: publication assignment *)

RankIndex(title) == CHOOSE i \in 0..(Len(rank_order) - 1) : rank_order[i + 1] = title

\* the rows of df_filtered that take part in the assignment
Assignable(k) ==
    /\ df_filtered[k].DOI # NA
    /\ \E i \in 1..Len(rank_order) : rank_order[i] = df_filtered[k].Position_x

ClaimantsOf(d) == {k \in 1..Len(df_filtered) : Assignable(k) /\ df_filtered[k].DOI = d}

AssignableDOIs == {df_filtered[k].DOI : k \in {j \in 1..Len(df_filtered) : Assignable(j)}}

OwnersOf(d) == {g \in 1..Len(df_assignments) : df_assignments[g].DOI = d}

\* C1: every DOI of the eligible rows that have a DOI and a ranked position is
\* assigned to exactly one faculty member; the owner is a claimant of that DOI
\* whose rank index is the least among its claimants, so no claimant is more
\* senior than the owner; no other DOI is assigned.
C1_OwnerHasMinimumRank ==
    pc = "done" =>
        /\ \A d \in AssignableDOIs :
              /\ Cardinality(OwnersOf(d)) = 1
              /\ \A g \in OwnersOf(d) :
                    \E k \in ClaimantsOf(d) :
                        /\ df_filtered[k].Username = df_assignments[g].AssignedTo
                        /\ \A j \in ClaimantsOf(d) :
                              RankIndex(df_filtered[k].Position_x)
                                  <= RankIndex(df_filtered[j].Position_x)
        /\ \A g \in 1..Len(df_assignments) : df_assignments[g].DOI \in AssignableDOIs

\* a DOI claimed by two members of different rank, the senior one later in the table
C1_Witness ==
    /\ pc = "done"
    /\ \E d \in AssignableDOIs : \E k, j \in ClaimantsOf(d) :
          /\ k < j
          /\ df_filtered[k].Username # df_filtered[j].Username
          /\ RankIndex(df_filtered[j].Position_x) < RankIndex(df_filtered[k].Position_x)
          /\ \E g \in OwnersOf(d) : df_assignments[g].AssignedTo = df_filtered[j].Username

MinRankOf(d) ==
    CHOOSE r \in {RankIndex(df_filtered[k].Position_x) : k \in ClaimantsOf(d)} :
        \A k \in ClaimantsOf(d) : r <= RankIndex(df_filtered[k].Position_x)

TiedAtMin(d) == {k \in ClaimantsOf(d) : RankIndex(df_filtered[k].Position_x) = MinRankOf(d)}

\* C2: when several claimants of a DOI share the least rank index, the DOI goes
\* to the one whose row comes first in the joined, filtered table (a function of
\* the table alone).
C2_FirstOfTiedWins ==
    pc = "done" =>
        \A g \in 1..Len(df_assignments) :
            LET d == df_assignments[g].DOI
                first == CHOOSE k \in TiedAtMin(d) : \A j \in TiedAtMin(d) : k <= j
            IN  df_assignments[g].AssignedTo = df_filtered[first].Username

\* two different members tied at the least rank of a DOI
C2_Witness ==
    /\ pc = "done"
    /\ \E g \in 1..Len(df_assignments) :
          \E k, j \in TiedAtMin(df_assignments[g].DOI) :
              /\ k < j
              /\ df_filtered[k].Username # df_filtered[j].Username
              /\ df_assignments[g].AssignedTo = df_filtered[k].Username

-----------------------------------------------------------------------------
(* Properties: completeness of the two tables *)

RosterUsernames == {df2[i].Username : i \in 1..Len(df2)}

RosterInfo ==
    {[Name |-> df2[i].Name, Username |-> df2[i].Username, Position_x |-> df2[i].Position,
      Arrive |-> df2[i].Arrive, Leave |-> df2[i].Leave] : i \in 1..Len(df2)}

RosterDetails ==
    {[Username |-> df2[i].Username, Name |-> df2[i].Name, Position_x |-> df2[i].Position] :
        i \in 1..Len(df2)}

InfoOfSummaryRow(k) ==
    [Name |-> df_faculty_summary[k].Name, Username |-> df_faculty_summary[k].Username,
     Position_x |-> df_faculty_summary[k].Position_x,
     Arrive |-> df_faculty_summary[k].Arrive, Leave |-> df_faculty_summary[k].Leave]

DetailsOfPubRow(k) ==
    [Username |-> df_pub_summary[k].Username, Name |-> df_pub_summary[k].Name,
     Position_x |-> df_pub_summary[k].Position_x]

NoPublications(b) == b.PMID_Count = 0 /\ b.NonPMID_Count = 0 /\ b.PMIDs = <<>>

HasEligibleRow(u) == \E k \in 1..Len(df_filtered) : df_filtered[k].Username = u

\* a member without eligible publication has all counts 0, empty lists, total 0
ZeroRowsAreZero ==
    /\ \A k \in 1..Len(df_faculty_summary) :
          ~HasEligibleRow(df_faculty_summary[k].Username) =>
              /\ NoPublications(df_faculty_summary[k].First)
              /\ NoPublications(df_faculty_summary[k].Last)
              /\ NoPublications(df_faculty_summary[k].Middle)
              /\ NoPublications(df_faculty_summary[k].Any)
    /\ \A k \in 1..Len(df_pub_summary) :
          ~HasEligibleRow(df_pub_summary[k].Username) =>
              df_pub_summary[k].TotalPublications = 0

\* C3 as stated: whenever process_data returns, each table has exactly one row
\* per distinct roster Username, none missing and none twice, and a member
\* without eligible publication has all counts 0, empty lists and total 0.
C3_OneRowPerUsername ==
    pc = "done" =>
        /\ \A u \in RosterUsernames :
              /\ Cardinality({k \in 1..Len(df_faculty_summary) :
                                 df_faculty_summary[k].Username = u}) = 1
              /\ Cardinality({k \in 1..Len(df_pub_summary) :
                                 df_pub_summary[k].Username = u}) = 1
        /\ Len(df_faculty_summary) = Cardinality(RosterUsernames)
        /\ Len(df_pub_summary) = Cardinality(RosterUsernames)
        /\ ZeroRowsAreZero

\* C3 amended: whenever process_data returns, each table has exactly one row per
\* distinct combination of the roster fields it carries (name, Username,
\* Position, and the dates in the faculty summary): no member is missing, and a
\* member has one row exactly when the roster rows of that Username agree on
\* those fields; a member without eligible publication has all counts 0,
\* empty lists and total 0.
C3_OneRowPerRosterRecord ==
    pc = "done" =>
        /\ \A r \in RosterInfo :
              Cardinality({k \in 1..Len(df_faculty_summary) : InfoOfSummaryRow(k) = r}) = 1
        /\ Len(df_faculty_summary) = Cardinality(RosterInfo)
        /\ \A r \in RosterDetails :
              Cardinality({k \in 1..Len(df_pub_summary) : DetailsOfPubRow(k) = r}) = 1
        /\ Len(df_pub_summary) = Cardinality(RosterDetails)
        /\ ZeroRowsAreZero

\* a roster of two members, one with two claims and one without eligible
\* publication, both tables returned
C3_Witness ==
    /\ pc = "done"
    /\ Cardinality(RosterUsernames) = 2
    /\ \E u \in RosterUsernames : ~HasEligibleRow(u)
    /\ \E u \in RosterUsernames :
          Cardinality({k \in 1..Len(df_filtered) : df_filtered[k].Username = u}) >= 2
    /\ Len(df_faculty_summary) = 2

-----------------------------------------------------------------------------
(* Properties: the first merge *)

MatchesOf(ri) == {ci \in 1..Len(df1) : df1[ci].NetID = df2[ri].Username}

RowsFrom(ri, ci) == {k \in 1..Len(df_merged1) : df_merged1[k].ri = ri /\ df_merged1[k].ci = ci}

-----------------------------------------------------------------------------
(* Properties: the fetch result *)

\* C10 as stated: for every non-empty list of requested identifiers and every
\* subset of them the provider resolves, the empty one included, process_data
\* returns both tables; the rows of an identifier that never resolves have
\* absent metadata and are not eligible.
C10_ReturnsForEverySubset ==
    /\ Len(scopus_ids) > 0 => pc # "raised"
    /\ pc = "done" =>
          \A k \in 1..Len(df_merged) :
              (\A j \in 1..Len(results) : results[j].ScopusID # df_merged[k].Scopus) =>
                  /\ df_merged[k].ScopusID = NA
                  /\ \A f \in 1..Len(df_filtered) : df_filtered[f] # df_merged[k]

-----------------------------------------------------------------------------
(* Properties: author positions *)

\* the publication's ordered author identifiers, as the provider lists them
AuthorsOf(r) == IF r.ScopusID = NA THEN <<>> ELSE provider[r.ScopusID].auids

\* the faculty member's claimed-identifier set
ClaimedSet(r) == IF isna(r.ClaimedScopus) THEN {} ELSE Range(Tokens(r.ClaimedScopus))

\* the classification rule
PositionRule(claimed, authors) ==
    LET n == Len(authors)
    IN  IF claimed = {} \/ n = 0 THEN <<FALSE, FALSE, FALSE>>
        ELSE IF n = 1 THEN <<authors[1] \in claimed, FALSE, FALSE>>
        ELSE <<authors[1] \in claimed,
               authors[n] \in claimed,
               \E i \in 2..(n - 1) : authors[i] \in claimed>>

FlagsOf(r) == <<r.Is_First_Author, r.Is_Last_Author, r.Is_Middle_Author>>

\* C4 as stated: for every joined row the three flags are the classification
\* rule applied to the member's claimed-identifier set and the publication's
\* ordered author identifiers.
C4_FlagsFollowRuleOnEveryRow ==
    pc = "done" =>
        \A k \in 1..Len(df_merged) :
            FlagsOf(df_merged[k]) = PositionRule(ClaimedSet(df_merged[k]), AuthorsOf(df_merged[k]))

\* C4 amended: for every joined row that has a DOI, a consolidated identifier
\* or a title, the three flags are the classification rule applied to the
\* member's claimed-identifier set and the publication's ordered author
\* identifiers (so never last for a single author, and first and last together
\* when both end authors are claimed); on a row with none of the three, all
\* flags are false whoever its authors are.
C4_FlagsFollowRuleOnValidRows ==
    pc = "done" =>
        \A k \in 1..Len(df_merged) :
            LET r == df_merged[k]
            IN  IF r.DOI # NA \/ r.PMID_Final # NaN \/ r.Title # NA
                THEN FlagsOf(r) = PositionRule(ClaimedSet(r), AuthorsOf(r))
                ELSE FlagsOf(r) = <<FALSE, FALSE, FALSE>>

\* a row of three authors whose first and last are both claimed
C4_Witness ==
    /\ pc = "done"
    /\ \E k \in 1..Len(df_merged) :
          /\ Len(AuthorsOf(df_merged[k])) = 3
          /\ FlagsOf(df_merged[k]) = <<TRUE, TRUE, FALSE>>
    /\ \E j \in 1..Len(df_merged) : df_merged[j].DOI # NA

-----------------------------------------------------------------------------
(* Properties: eligibility *)

Blanks(n) == MapIdx(LAMBDA i : " ", n, 1)

\* s is t with blanks around it
TrimsTo(s, t) ==
    \E a, b \in 0..Len(s) : s = Blanks(a) \o t \o Blanks(b)

PeerReviewedSubtype(s) ==
    /\ s # NaN
    /\ \E t \in {T_Article, T_BookChapter, T_Review, T_ShortSurvey} : TrimsTo(s, t)

IsKept(r) == \E f \in 1..Len(df_filtered) : df_filtered[f] = r

\* C5: a joined row is kept in the eligible set exactly when its subtype,
\* trimmed, is Article, Book Chapter, Review or Short Survey, its publication
\* date is present and start_date <= date <= end_date, both bounds included;
\* the eligible set holds nothing else.
C5_KeptIffPeerReviewedInWindow ==
    pc = "done" =>
        /\ \A k \in 1..Len(df_merged) :
              IsKept(df_merged[k]) <=>
                  /\ PeerReviewedSubtype(df_merged[k].SubType)
                  /\ df_merged[k].PublicationDate # NaT
                  /\ start_date <= df_merged[k].PublicationDate
                  /\ df_merged[k].PublicationDate <= end_date
        /\ \A f \in 1..Len(df_filtered) :
              \E k \in 1..Len(df_merged) : df_merged[k] = df_filtered[f]

\* a publication dated on start_date, of a subtype written with blanks, kept
C5_Witness ==
    /\ pc = "done"
    /\ \E k \in 1..Len(df_merged) :
          /\ df_merged[k].PublicationDate = start_date
          /\ df_merged[k].SubType # strip(df_merged[k].SubType)
          /\ IsKept(df_merged[k])

-----------------------------------------------------------------------------
(* Properties: combine_date_parts *)

Absent(p) == p = NaN \/ p = <<>>

\* the text is a number
Numeric(p) == p # NaN /\ Len(p) > 0 /\ \A i \in 1..Len(p) : p[i] \in Digits

ValidYear(y) == Numeric(y) /\ Len(y) = 4 /\ StrToInt(y) >= 1

\* the month number the call uses: January for an absent month
MonthUsed(m) == IF Absent(m) THEN 1 ELSE StrToInt(m)

DayUsed(d) == IF Absent(d) THEN 1 ELSE StrToInt(d)

MonthInRange(m) == Absent(m) \/ (Numeric(m) /\ StrToInt(m) \in 1..12)

DayInRange(y, m, d) ==
    Absent(d) \/ (Numeric(d) /\ StrToInt(d) \in 1..DaysInMonth(StrToInt(y), MonthUsed(m)))

\* C6 as stated: combine_date_parts never raises; an absent or unparsable month
\* (day) is replaced by "01" and a date is still produced from a valid year; an
\* absent or non-numeric year, or a numeric month or day out of range, gives
\* the absent value.
C6_UnparsableDefaultsToFirst ==
    /\ pc # "raised"
    /\ pc = "date_ret" =>
          LET y == date_in.year
              m == IF Numeric(date_in.month) THEN date_in.month ELSE <<>>
              d == IF Numeric(date_in.day) THEN date_in.day ELSE <<>>
          IN  IF ValidYear(y) /\ MonthInRange(m) /\ DayInRange(y, m, d)
              THEN date_out = MkDate(StrToInt(y), MonthUsed(m), DayUsed(d))
              ELSE date_out = NaT

\* C6 amended: combine_date_parts never raises; an absent or empty month (day)
\* is replaced by "01" and a date is still produced from a valid year; a year
\* that is absent or no four-digit number, or a month or day that is present
\* and is not a number in range (text such as "Aug", or 13), gives the absent
\* value.
C6_AbsentDefaultsToFirst ==
    /\ pc # "raised"
    /\ pc = "date_ret" =>
          LET y == date_in.year
              m == date_in.month
              d == date_in.day
          IN  IF ValidYear(y) /\ MonthInRange(m) /\ DayInRange(y, m, d)
              THEN date_out = MkDate(StrToInt(y), MonthUsed(m), DayUsed(d))
              ELSE date_out = NaT

\* a date produced from a year and a day alone
C6_Witness ==
    /\ pc = "date_ret"
    /\ date_in.month = NaN
    /\ date_in.day = <<"1", "5">>
    /\ date_out = MkDate(2024, 1, 15)

-----------------------------------------------------------------------------
(* Properties: consolidate_pmids *)

\* a candidate cell as text: a numeric cell prints as the integer it holds
CandidateDigits(row, c) ==
    IF c = 1 THEN (IF row.PubMed = NaN THEN NaN ELSE Int64String(row.PubMed))
    ELSE IF c = 2 THEN FirstDigitRun(row.MaxPR_PubMed)
    ELSE FirstDigitRun(row.EuropePMC)

Yields(row, c) == CandidateDigits(row, c) # NaN /\ Len(CandidateDigits(row, c)) > 0

\* C7: when consolidate_pmids returns, 'PMID Final' of every record is the
\* digit string of the first candidate, in the order PubMed, MaxPR_PubMed,
\* EuropePMC, that yields one, and absent when none does; a record with values
\* in the second and third column only gets the digits of the second.
C7_FirstCandidateWithDigits ==
    pc = "pmid_ret" =>
        \A i \in 1..Len(df1) :
            /\ (\A c \in 1..3 : ~Yields(df1[i], c)) => pmid_final[i] = NaN
            /\ \A c \in 1..3 :
                  (Yields(df1[i], c) /\ \A b \in 1..(c - 1) : ~Yields(df1[i], b)) =>
                      pmid_final[i] = CandidateDigits(df1[i], c)
            /\ (/\ df1[i].PubMed = NaN
                /\ df1[i].MaxPR_PubMed = <<"P", "M", ":", " ", "3", "4", " ", "x", "9">>
                /\ df1[i].EuropePMC = <<"M", "E", "D", "5", "6">>) =>
                      pmid_final[i] = <<"3", "4">>

\* a record with values in the second and third column only
C7_Witness ==
    /\ pc = "pmid_ret"
    /\ \E i \in 1..Len(df1) :
          /\ df1[i].PubMed = NaN
          /\ df1[i].MaxPR_PubMed = <<"P", "M", ":", " ", "3", "4", " ", "x", "9">>
          /\ df1[i].EuropePMC = <<"M", "E", "D", "5", "6">>
          /\ pmid_final[i] = <<"3", "4">>

\* C8 as stated: consolidate_pmids raises on no candidate value, in any of the
\* three columns: a malformed value is absent for that candidate only.
C8_NeverRaises == pc # "raised"

-----------------------------------------------------------------------------
(* Properties: the precondition failure *)

NothingToFetch == Len(unique_scopus_ids(df1)) = 0

\* the publication table has a column consolidate_pmids cannot read
InputShapeError == consolidate_pmids_error(df1) # ""

NoTableReturned ==
    df_faculty_summary = <<>> /\ df_pub_summary = <<>> /\ pc # "done"

\* C11 as stated: with no identifier to fetch process_data raises "No Scopus IDs
\* found" before any request is sent and returns neither table; every other
\* run that hits no input-shape error does not raise, it returns both tables.
C11_FailFastElseBothTables ==
    /\ (pc # "start" /\ ~InputShapeError /\ NothingToFetch) =>
          /\ pc = "raised"
          /\ err = "ValueError: No Scopus IDs found in the data!"
          /\ sent = <<>>
          /\ NoTableReturned
    /\ (~InputShapeError /\ ~NothingToFetch) => pc # "raised"

-----------------------------------------------------------------------------
(* Properties: the coauthorship flag *)

EligibleRowsOf(u) == {k \in 1..Len(df_filtered) : df_filtered[k].Username = u}

\* an identifier u claims in the eligible set is claimed there by somebody else
SharesIdentifier(u) ==
    \E a \in EligibleRowsOf(u), b \in 1..Len(df_filtered) :
        /\ df_filtered[b].Username # u
        /\ df_filtered[b].ScopusID = df_filtered[a].ScopusID

\* C12: in the faculty summary the coauthorship flag of a member is "Yes"
\* exactly when some identifier the member claims in the eligible set is claimed
\* there by a different member, and "No" otherwise, members without eligible
\* rows included.
C12_CoauthorIffSharedIdentifier ==
    pc = "done" =>
        \A k \in 1..Len(df_faculty_summary) :
            LET u == df_faculty_summary[k].Username
            IN  /\ df_faculty_summary[k].Coauthor \in {"Yes", "No"}
                /\ df_faculty_summary[k].Coauthor = "Yes" <=> SharesIdentifier(u)
                /\ EligibleRowsOf(u) = {} => df_faculty_summary[k].Coauthor = "No"

\* two members share an identifier of the eligible set
C12_Witness ==
    /\ pc = "done"
    /\ \E k \in 1..Len(df_faculty_summary) : df_faculty_summary[k].Coauthor = "Yes"
    /\ Len(df_filtered) >= 2

-----------------------------------------------------------------------------
(* Properties: the identifier counts *)

Present(p) == p # NaN

Buckets == {"First", "Last", "Middle", "Any"}

FlagOfBucket(b) ==
    CASE b = "First" -> "Is_First_Author"
      [] b = "Last" -> "Is_Last_Author"
      [] b = "Middle" -> "Is_Middle_Author"

\* the eligible rows of u that fall in bucket b
BucketRows(u, b) ==
    IF b = "Any" THEN EligibleRowsOf(u)
    ELSE {k \in EligibleRowsOf(u) : df_filtered[k][FlagOfBucket(b)]}

\* C13: for every member and each of the buckets first, last, middle and any,
\* the PMID count is the number of the member's eligible rows in the bucket
\* whose consolidated identifier is present and the NonPMID count the number
\* whose identifier is absent, so the two add up to the rows of the bucket; the
\* any bucket holds all the member's eligible rows, whatever their flags and
\* whether or not they have a DOI.
C13_CountsPartitionEachBucket ==
    pc = "done" =>
        \A k \in 1..Len(df_faculty_summary), b \in Buckets :
            LET u == df_faculty_summary[k].Username
                cell == df_faculty_summary[k][b]
                rows == BucketRows(u, b)
            IN  /\ cell.PMID_Count =
                      Cardinality({r \in rows : Present(df_filtered[r].PMID_Final)})
                /\ cell.NonPMID_Count =
                      Cardinality({r \in rows : ~Present(df_filtered[r].PMID_Final)})
                /\ cell.PMID_Count + cell.NonPMID_Count = Cardinality(rows)

\* a member with an eligible row with and one without identifier, one of the
\* rows without DOI
C13_Witness ==
    /\ pc = "done"
    /\ \E k \in 1..Len(df_faculty_summary) :
          /\ df_faculty_summary[k].Any.PMID_Count >= 1
          /\ df_faculty_summary[k].Any.NonPMID_Count >= 1
          /\ \E r \in EligibleRowsOf(df_faculty_summary[k].Username) :
                df_filtered[r].DOI = NA

-----------------------------------------------------------------------------
(* Properties: Total Publications *)

\* the DOIs u was chosen for
OwnedDOIs(u) ==
    {df_assignments[g].DOI : g \in {i \in 1..Len(df_assignments) :
                                       df_assignments[i].AssignedTo = u}}

\* rows with an absent DOI or an unranked position are assigned to nobody
OnlyAssignableAssigned ==
    \A g \in 1..Len(df_assignments) :
        /\ df_assignments[g].DOI # NA
        /\ df_assignments[g].DOI \in AssignableDOIs
        /\ \A h \in 1..Len(df_assignments) :
              df_assignments[h].DOI = df_assignments[g].DOI => h = g

TotalsOwned ==
    \A k \in 1..Len(df_pub_summary) :
        df_pub_summary[k].TotalPublications =
            Cardinality(OwnedDOIs(df_pub_summary[k].Username))

\* Total Publications of the first row of each Username, in table order
TotalsByUsername ==
    LET names == unique(Column(df_pub_summary, "Username"))
    IN  MapIdx(LAMBDA n :
            df_pub_summary[CHOOSE k \in 1..Len(df_pub_summary) :
                               df_pub_summary[k].Username = names[n]].TotalPublications,
            Len(names), 1)

-----------------------------------------------------------------------------
(* Properties: the retry loop *)

\* how many of the first j requests went to the identifier of request j
AttemptNo(j) == Cardinality({i \in 1..j : sent[i] = sent[j]})

RequestsFor(s) == Cardinality({i \in 1..Len(sent) : sent[i] = s})

\* what the provider answered to request j
AnswerTo(j) == responses[sent[j]][AttemptNo(j)]

PositionOf(s) == CHOOSE i \in 1..Len(scopus_ids) : scopus_ids[i] = s

RetryLoopSafe ==
    /\ pc # "raised"
    /\ \A s \in Range(scopus_ids) : RequestsFor(s) <= max_retries
    /\ \A j \in 1..Len(sent) : AttemptNo(j) <= max_retries
    /\ \A j \in 1..(Len(sent) - 1) :
          /\ sent[j + 1] = sent[j] => AnswerTo(j) = "429"
          /\ AnswerTo(j) # "429" => \A i \in (j + 1)..Len(sent) : sent[i] # sent[j]
          /\ PositionOf(sent[j]) <= PositionOf(sent[j + 1])
    /\ \A a, b \in 1..Len(results) :
          a < b => PositionOf(results[a].ScopusID) < PositionOf(results[b].ScopusID)
    /\ \A a \in 1..Len(results) :
          \E j \in 1..Len(sent) : sent[j] = results[a].ScopusID /\ AnswerTo(j) = "200"
    /\ pc = "fetch_ret" =>
          \A s \in Range(scopus_ids) :
              /\ RequestsFor(s) >= 1
              /\ (\A a \in 1..max_retries : responses[s][a] = "429") =>
                    /\ RequestsFor(s) = max_retries
                    /\ \A a \in 1..Len(results) : results[a].ScopusID # s

\* C15: in query_scopus_api at most max_retries requests are sent for an
\* identifier, a further request for it only after a 429 answer; a success, any
\* other status or an exception ends its attempts; at most one record is
\* appended per identifier, the records are in request order, an identifier
\* rate-limited on every attempt yields no record and no error, and the fetch
\* returns for every sequence of answers.
C15_RetryLoopBoundedAndTerminates == []RetryLoopSafe /\ <>(pc = "fetch_ret")

\* the first identifier rate-limited on every attempt, the second answered
\* after one retry
C15_Witness ==
    /\ pc = "fetch_ret"
    /\ Len(scopus_ids) = 2
    /\ sent = <<1, 1, 1, 2, 2>>
    /\ Len(results) = 1
    /\ results[1].ScopusID = 2

-----------------------------------------------------------------------------
(* Properties: the progress reports *)

\* the fraction a over b is below the fraction c over d
FractionLess(x, y) == x[1] * y[2] < y[1] * x[2]

\* C16 as stated: for every non-empty identifier list the values reported to
\* the callback are strictly increasing fractions in (0, 1], the k-th being k
\* over the number of batches, and the last value reported is exactly 1, for
\* every list length, exact multiples of the batch size included.
C16_ProgressEndsAtOne ==
    pc = "fetch_ret" =>
        /\ Len(progress) = ChunkCount(scopus_ids)
        /\ \A k \in 1..Len(progress) :
              /\ 0 < progress[k][1] /\ progress[k][1] <= progress[k][2]
              /\ progress[k][1] * ChunkCount(scopus_ids) = k * progress[k][2]
        /\ \A k \in 1..(Len(progress) - 1) : FractionLess(progress[k], progress[k + 1])
        /\ progress[Len(progress)][1] = progress[Len(progress)][2]

====
